---- MODULE Spec2Model ----
(***************************************************************************)
(* Model of the orchestrator: the backlog scheduler (main.py), the         *)
(* sandboxed repository accessor (bash_tools.py) and the developer and     *)
(* reviewer execution loops (agents/developer.py, agents/reviewer.py).     *)
(***************************************************************************)
EXTENDS Integers, Sequences, FiniteSets, TLC

VARIABLES
  tasks,            \* main.py: the list returned by load_tasks
  done_ids,         \* main.py: the set returned by load_done_ids
  picked,           \* main.py: `task`, the result of pick_next_ready (index, 0 = None)
  schedPc,          \* position in the run command: "load" | "picked"
  fsKind,           \* the file system: what each path names (file, dir, none)
  call,             \* a direct call of the accessor: operation, path, depth
  result,           \* the text that call returned
  listdir,          \* os.listdir of the directory a call lists: name and kind of
                    \* each child, in the order the system gives them
  role,             \* which loop runs: "developer" (execute_task) | "reviewer" (review_task)
  pc,               \* "running" | "complete" | "exceeded" | "raised" (an exception left the loop)
  step,             \* developer.py: the local `step`
  ctx_step,         \* execution_context.py: Context.step
  current_request,  \* the instruction the next remote call sends
  prompt_context,   \* developer.py `context` / Context.prompt_context: label -> text
  worktree,         \* the paths git apply has written in the working tree
  log_final,        \* the *_final.* files of the task log: name -> text
  review_finished,  \* Context.review_finished
  ran,              \* how many commands the last round executed against the accessor
  invocation,       \* which invocation of the loop in the task this is (1, 2, ..)
  chat,             \* llm.py: LLM.chat, "empty" or "turns" (it holds turns of earlier calls)
  a_lines,          \* the working tree: the lines of the file a
  offending,        \* the first command of the last reply that is not an ls, cat or
                    \* tree command of the protocol (<<>> when it has none)
  done_yaml,        \* docs/tasks/done.yaml: the ids of its listdir, in file order
  problems_yaml,    \* docs/tasks/problems.yaml: its listdir, in file order
  clean,            \* git: `git status --porcelain` prints nothing
  branches,         \* git: the branches of the repository
  branch,           \* git: the branch that is checked out
  commits,          \* git: the messages of the commits made, oldest first
  checks,           \* docs/orchestrator.yaml: the names of the configured checks
  results,          \* main.py: `results` of the check steps run so far (ok or not)
  proposal,         \* main.py: tester_yaml_holder["raw"], the tester's proposal
  applied,          \* the paths apply_proposal has written
  rc,               \* how the last run command ended: its exit status as text,
                    \* "raised" for an exception, None while it runs
  runs,             \* how many run commands have been started
  calls             \* the calls of llm.text execute_task has made in this invocation
                    \* and how many of the replies json.loads parsed, counted
                    \* where `counted` is set

schedVars == <<tasks, done_ids, picked, schedPc>>
fsVars == <<fsKind, call, result, listdir>>
runVars == <<done_yaml, problems_yaml, clean, branches, branch, commits,
             checks, results, proposal, applied, rc, runs>>
loopVars == <<role, pc, step, ctx_step, current_request, prompt_context,
              worktree, log_final, review_finished, ran, chat, invocation,
              offending, a_lines, calls>>

None == "None"

(***************************************************************************)
(* Bounds                                                                  *)
(***************************************************************************)
MaxTasks == 2
MaxDepth == 2
MaxCmds == 2
MaxChanges == 2
MaxComments == 2
MaxInvocations == 2

(***************************************************************************)
(* Backlog scheduler                                                       *)
(***************************************************************************)
TaskIds == {"A", "B"}
Statuses == {"ready", "blocked"}

\* main.py Task: the fields pick_next_ready reads. deps is a list in the
\* source; it is only ever tested with `dep in done_ids` for each element,
\* so it is kept as the set of its elements.
Task == [id : TaskIds, status : Statuses, deps : SUBSET TaskIds]

TaskLists == UNION {[1..n -> Task] : n \in 0..MaxTasks}

\* for t in tasks: if t.status != "ready": continue
\*                 if all(dep in done_ids for dep in t.deps): return t
\* return None
RECURSIVE pick_from(_, _, _)
pick_from(ts, done, i) ==
  IF i > Len(ts) THEN 0
  ELSE IF ts[i].status # "ready" THEN pick_from(ts, done, i + 1)
  ELSE IF \A dep \in ts[i].deps : dep \in done THEN i
  ELSE pick_from(ts, done, i + 1)

\* the same scan without the test of the status
RECURSIVE pick_from_any_status(_, _, _)
pick_from_any_status(ts, done, i) ==
  IF i > Len(ts) THEN 0
  ELSE IF \A dep \in ts[i].deps : dep \in done THEN i
  ELSE pick_from_any_status(ts, done, i + 1)

pick_next_ready_any_status(ts, done) == pick_from_any_status(ts, done, 1)

pick_next_ready(ts, done) == pick_from(ts, done, 1)

InitSched ==
  /\ tasks \in TaskLists
  /\ done_ids \in SUBSET TaskIds
  /\ picked = 0
  /\ schedPc = "load"

InitSchedIdle ==
  /\ tasks = <<>>
  /\ done_ids = {}
  /\ picked = 0
  /\ schedPc = "load"

\* main: tasks = load_tasks(..); done_ids = load_done_ids(..);
\*       task = pick_next_ready(tasks, done_ids)
RunPick ==
  /\ schedPc = "load"
  /\ picked' = pick_next_ready(tasks, done_ids)
  /\ schedPc' = "picked"
  /\ UNCHANGED <<tasks, done_ids>>
  /\ UNCHANGED <<fsVars, loopVars, runVars>>

\* main: if task is None: return 0
RunNoTask ==
  /\ schedPc = "picked"
  /\ picked = 0
  /\ schedPc' = "load"
  /\ UNCHANGED <<tasks, done_ids, picked>>
  /\ UNCHANGED <<fsVars, loopVars, runVars>>

\* main: append_done(repo, task.id, task.title); the next run reads the
\* id back through load_done_ids. The backlog file is not written.
RunAppendDone ==
  /\ schedPc = "picked"
  /\ picked # 0
  /\ done_ids' = done_ids \cup {tasks[picked].id}
  /\ picked' = 0
  /\ schedPc' = "load"
  /\ UNCHANGED tasks
  /\ UNCHANGED <<fsVars, loopVars, runVars>>

\* main: a run that stops before append_done (a failed check, a diff that
\* is too large, an existing branch)
RunStop ==
  /\ schedPc = "picked"
  /\ picked # 0
  /\ picked' = 0
  /\ schedPc' = "load"
  /\ UNCHANGED <<tasks, done_ids>>
  /\ UNCHANGED <<fsVars, loopVars, runVars>>

NextSched == RunPick \/ RunNoTask \/ RunAppendDone \/ RunStop

(***************************************************************************)
(* The run command: its steps, git, done.yaml and problems.yaml            *)
(***************************************************************************)
MaxChecks == 2
MaxRuns == 2

\* the diff size above which the run stops
MaxDiffLines == 300

title(id) == "title " \o id
branch_name(id) == "task/" \o id
tests_message(id) == id \o ": add tests"
final_message(id) == id \o ": " \o title(id)

\* load_done_ids: the ids of the listdir of done.yaml, as a set
load_done_ids(entries) == {entries[i] : i \in 1..Len(entries)}

\* append_done that writes the file with the new entry alone
append_done_overwrite(entries, id) == <<id>>

\* append_done: read the list, append one entry, write the list back
append_done(entries, id) == Append(entries, id)

\* append_problem: read the list, append one entry, write the list back
append_problem(entries, id, question, blocking) ==
  Append(entries, [task |-> id, question |-> question, blocking |-> blocking])

\* The backlogs of the runs: no task, one ready task, the chain A <- B,
\* and a first task that is not ready.
RunBacklogs ==
  { <<>>,
    <<[id |-> "A", status |-> "ready", deps |-> {}]>>,
    <<[id |-> "A", status |-> "ready", deps |-> {}],
      [id |-> "B", status |-> "ready", deps |-> {"A"}]>>,
    <<[id |-> "A", status |-> "blocked", deps |-> {}],
      [id |-> "B", status |-> "ready", deps |-> {}]>> }

\* What the tester's reply is once parsed: no file, a new file under
\* tests/, a file under tests/ whose content is what the tree already
\* holds, a path outside tests/ and docs/tests/, a path in a directory
\* beside tests/ whose name starts with `tests`, a file under docs/tests/,
\* and text that parse_proposal_yaml rejects. changes: apply_proposal
\* alters the tree.
Proposals ==
  { [kind |-> "empty",     files |-> <<>>,             changes |-> FALSE],
    [kind |-> "tests",     files |-> <<"tests/t.py">>, changes |-> TRUE],
    [kind |-> "same",      files |-> <<"tests/t.py">>, changes |-> FALSE],
    [kind |-> "outside",   files |-> <<"src/x.py">>,   changes |-> TRUE],
    [kind |-> "sibling",   files |-> <<"tests_old/x.py">>, changes |-> TRUE],
    [kind |-> "docs",      files |-> <<"docs/tests/d.md">>, changes |-> TRUE],
    [kind |-> "malformed", files |-> <<>>,             changes |-> FALSE] }
NoProposal == [kind |-> "none", files |-> <<>>, changes |-> FALSE]

\* (repo / path).resolve() as a string, for a path with no '..' segment
\* and no symbolic link in it; the repository is /r
resolved(path) == "/r/" \o path

\* str.startswith
str_startswith(s, prefix) ==
  /\ Len(s) >= Len(prefix)
  /\ SubSeq(s, 1, Len(prefix)) = prefix

\* the prefixes step tester_apply allows
TestPrefixes == <<"tests", "docs/tests">>

\* validate_allowed_prefixes: TRUE when it returns, FALSE when it raises
\* ValueError
validate_allowed_prefixes(files, prefixes) ==
  \A i \in 1..Len(files) :
    \E j \in 1..Len(prefixes) :
      str_startswith(resolved(files[i]), resolved(prefixes[j]))

CheckNames == {"lint", "test"}
CheckConfigs == UNION {[1..n -> CheckNames] : n \in 0..MaxChecks}

\* the lines `git diff --numstat` counts: none when the tree is clean
numstat(cl) == IF cl THEN {0} ELSE {1, MaxDiffLines + 1}

\* `clean` is what `git status --porcelain` reports. The step logs are
\* written under <repo>/logs: a repository that ignores logs/ may start
\* clean, one that does not is never clean when git_create_branch looks.
InitRun ==
  /\ done_yaml \in {<<>>, <<"A">>, <<"B", "A">>}
  /\ problems_yaml = <<>>
  /\ clean \in BOOLEAN
  /\ branches \in {{"main"}, {"main", branch_name("A")}}
  /\ branch = "main"
  /\ commits = <<>>
  /\ checks \in CheckConfigs
  /\ results = <<>>
  /\ proposal = NoProposal
  /\ applied = {}
  /\ rc = None
  /\ runs = 0

InitRunIdle ==
  /\ done_yaml = <<>>
  /\ problems_yaml = <<>>
  /\ clean = TRUE
  /\ branches = {"main"}
  /\ branch = "main"
  /\ commits = <<>>
  /\ checks = <<>>
  /\ results = <<>>
  /\ proposal = NoProposal
  /\ applied = {}
  /\ rc = None
  /\ runs = 0

gitVars == <<clean, branches, branch, commits>>
yamlVars == <<done_yaml, problems_yaml>>

\* the run ends: the process exits with status `code`
Exit(code) ==
  /\ rc' = code
  /\ schedPc' = "load"
  /\ picked' = 0

\* main: load_tasks, load_done_ids, pick_next_ready; `if task is None:
\* return 0`; make_task_log_dir and the list of steps
RunLoad ==
  /\ schedPc = "load"
  /\ runs < MaxRuns
  /\ runs' = runs + 1
  /\ done_ids' = load_done_ids(done_yaml)
  /\ results' = <<>>
  /\ proposal' = NoProposal
  /\ applied' = {}
  /\ LET task == pick_next_ready(tasks, done_ids') IN
     IF task = 0
     THEN /\ rc' = "0"
          /\ UNCHANGED <<picked, schedPc>>
     ELSE /\ rc' = None
          /\ picked' = task
          /\ schedPc' = "git_precheck"
  /\ UNCHANGED <<tasks, gitVars, yamlVars, checks>>
  /\ UNCHANGED <<fsVars, loopVars>>

\* step git_precheck: head_sha, current_branch and is_clean are recorded
RunPrecheck ==
  /\ schedPc = "git_precheck"
  /\ schedPc' = "git_create_branch"
  /\ UNCHANGED <<tasks, done_ids, picked>>
  /\ UNCHANGED <<fsVars, loopVars, runVars>>

\* step git_create_branch without the test of the working tree
RunCreateBranch_unchecked ==
  /\ schedPc = "git_create_branch"
  /\ IF branch_name(tasks[picked].id) \in branches
     THEN /\ Exit("5")
          /\ UNCHANGED <<branches, branch>>
     ELSE /\ branches' = branches \cup {branch_name(tasks[picked].id)}
          /\ branch' = branch_name(tasks[picked].id)
          /\ schedPc' = "tester_generate"
          /\ UNCHANGED <<picked, rc>>
  /\ UNCHANGED <<tasks, done_ids, clean, commits, yamlVars, checks, results,
                 proposal, applied, runs>>
  /\ UNCHANGED <<fsVars, loopVars>>

\* step git_create_branch: _create_branch
RunCreateBranch ==
  /\ schedPc = "git_create_branch"
  /\ IF ~clean
     THEN /\ Exit("4")
          /\ UNCHANGED <<branches, branch>>
     ELSE IF branch_name(tasks[picked].id) \in branches
     THEN /\ Exit("5")
          /\ UNCHANGED <<branches, branch>>
     ELSE /\ branches' = branches \cup {branch_name(tasks[picked].id)}
          /\ branch' = branch_name(tasks[picked].id)
          /\ schedPc' = "tester_generate"
          /\ UNCHANGED <<picked, rc>>
  /\ UNCHANGED <<tasks, done_ids, clean, commits, yamlVars, checks, results,
                 proposal, applied, runs>>
  /\ UNCHANGED <<fsVars, loopVars>>

\* step tester_generate: _tester_step keeps the reply of run_tester
RunTesterGenerate ==
  /\ schedPc = "tester_generate"
  /\ proposal' \in Proposals
  /\ schedPc' = "tester_apply"
  /\ UNCHANGED <<tasks, done_ids, picked>>
  /\ UNCHANGED <<gitVars, yamlVars, checks, results, applied, rc, runs>>
  /\ UNCHANGED <<fsVars, loopVars>>

\* step tester_apply: parse_proposal_yaml, validate_allowed_prefixes (both
\* raise ValueError), apply_proposal
RunTesterApply ==
  /\ schedPc = "tester_apply"
  /\ IF \/ proposal.kind = "malformed"
        \/ ~validate_allowed_prefixes(proposal.files, TestPrefixes)
     THEN /\ Exit("raised")
          /\ UNCHANGED <<applied, clean>>
     ELSE /\ applied' = {proposal.files[i] : i \in 1..Len(proposal.files)}
          /\ clean' = (clean /\ ~proposal.changes)
          /\ schedPc' = IF checks = <<>> THEN "commit_tests" ELSE "check"
          /\ UNCHANGED <<picked, rc>>
  /\ UNCHANGED <<tasks, done_ids, branches, branch, commits, yamlVars, checks,
                 results, proposal, runs>>
  /\ UNCHANGED <<fsVars, loopVars>>

\* step check_<name>: run_cmd; a CmdError is turned into {"ok": False}
RunCheck ==
  /\ schedPc = "check"
  /\ \E ok \in BOOLEAN :
       results' = Append(results, [name |-> checks[Len(results) + 1], ok |-> ok])
  /\ schedPc' = IF Len(results') = Len(checks) THEN "commit_tests" ELSE "check"
  /\ UNCHANGED <<tasks, done_ids, picked>>
  /\ UNCHANGED <<gitVars, yamlVars, checks, proposal, applied, rc, runs>>
  /\ UNCHANGED <<fsVars, loopVars>>

\* step commit_tests: add_all; commit. `git commit` fails when there is
\* nothing to commit and _run raises GitError.
RunCommitTests ==
  /\ schedPc = "commit_tests"
  /\ IF clean
     THEN /\ Exit("raised")
          /\ UNCHANGED <<clean, commits>>
     ELSE /\ commits' = Append(commits, tests_message(tasks[picked].id))
          /\ clean' = TRUE
          /\ schedPc' = "collect"
          /\ UNCHANGED <<picked, rc>>
  /\ UNCHANGED <<tasks, done_ids, branches, branch, yamlVars, checks, results,
                 proposal, applied, runs>>
  /\ UNCHANGED <<fsVars, loopVars>>

\* the same list when no result is looked at
failed_checks_none(res) == <<>>

\* `failed`: the names of the check steps whose result is not ok
failed_checks(res) == SelectSeq(res, LAMBDA r : ~r.ok)

\* after the steps: the failed checks, the size of the diff, append_done
\* and the final commit
RunAfterSteps ==
  /\ schedPc = "collect"
  /\ IF failed_checks(results) # <<>>
     THEN /\ problems_yaml' = append_problem(problems_yaml, tasks[picked].id,
                                             "Checks failed", TRUE)
          /\ clean' = FALSE
          /\ Exit("6")
          /\ UNCHANGED <<done_yaml, commits>>
     ELSE \E lines \in numstat(clean) :
            IF lines > MaxDiffLines
            THEN /\ problems_yaml' = append_problem(problems_yaml, tasks[picked].id,
                                                    "Diff too large", TRUE)
                 /\ clean' = FALSE
                 /\ Exit("7")
                 /\ UNCHANGED <<done_yaml, commits>>
            ELSE /\ done_yaml' = append_done(done_yaml, tasks[picked].id)
                 /\ commits' = Append(commits, final_message(tasks[picked].id))
                 /\ clean' = TRUE
                 /\ Exit("0")
                 /\ UNCHANGED problems_yaml
  /\ UNCHANGED <<tasks, done_ids, branches, branch, checks, results, proposal,
                 applied, runs>>
  /\ UNCHANGED <<fsVars, loopVars>>

NextRun ==
  \/ RunLoad
  \/ RunPrecheck
  \/ RunCreateBranch
  \/ RunTesterGenerate
  \/ RunTesterApply
  \/ RunCheck
  \/ RunCommitTests
  \/ RunAfterSteps

(***************************************************************************)
(* Sandboxed repository accessor                                           *)
(***************************************************************************)
Kinds == {"file", "dir", "none"}

\* Paths an agent can name, each with the value os.path.realpath gives
\* it, written as a sequence of characters. The current directory is /r.
\*   "."      the sandbox root
\*   "a"      a name inside the sandbox
\*   "ln"     a symbolic link inside the sandbox whose target is /e
\*   "../r2"  a sibling of the root whose name starts with the root's name
\*   "/e"     an absolute path outside the sandbox
\*   "a/../.." the parent of the root
PathNames == {".", "a", "ln", "../r2", "/e", "a/../.."}

abs_cwd == <<"/", "r">>
os_sep == "/"

realpath(p) ==
  CASE p = "."       -> <<"/", "r">>
    [] p = "a"       -> <<"/", "r", "/", "a">>
    [] p = "ln"      -> <<"/", "e">>
    [] p = "../r2"   -> <<"/", "r", "2">>
    [] p = "/e"      -> <<"/", "e">>
    [] p = "a/../.." -> <<"/">>

startswith(s, prefix) ==
  /\ Len(prefix) <= Len(s)
  /\ SubSeq(s, 1, Len(prefix)) = prefix

\* not abs_path.startswith(abs_cwd + os.sep) and abs_path != abs_cwd
outside_cwd(p) ==
  /\ ~startswith(realpath(p), Append(abs_cwd, os_sep))
  /\ realpath(p) # abs_cwd

FORBIDDEN == "<FORBIDDEN>"

\* The text a successful call returns: the listing of a directory, the
\* content of a file, the walk of a directory down to a depth.
listing_of(p) == "LISTING " \o p
text_of(p) == "TEXT " \o p
walk_of(p, depth) == "TREE " \o p \o " " \o ToString(depth)

isfile(k, p) == p \in DOMAIN k /\ k[p] = "file"
isdir(k, p) == p \in DOMAIN k /\ k[p] = "dir"

ls(k, p) ==
  IF isfile(k, p) THEN p
  ELSE IF ~isdir(k, p) THEN FORBIDDEN
  ELSE IF outside_cwd(p) THEN FORBIDDEN
  ELSE listing_of(p)

cat(k, p) ==
  IF ~isfile(k, p) THEN FORBIDDEN
  ELSE IF outside_cwd(p) THEN FORBIDDEN
  ELSE text_of(p)

tree(k, p, depth) ==
  IF depth < 0 THEN ""
  ELSE IF ~isdir(k, p) THEN FORBIDDEN
  ELSE IF outside_cwd(p) THEN FORBIDDEN
  ELSE walk_of(p, depth)

Depths == (0 - 1) .. MaxDepth

\* The sandbox root and its parent are directories; every other name may be
\* a file, a directory or nothing, the link being what its target is.
FsKinds ==
  {k \in [PathNames -> Kinds] :
     k["."] = "dir" /\ k["a/../.."] = "dir" /\ k["ln"] = k["/e"]}

NoOp == [op |-> "none", path |-> ".", depth |-> 0]

InitFs ==
  /\ fsKind \in FsKinds
  /\ call = NoOp
  /\ result = None
  /\ listdir = <<[name |-> "f", kind |-> "file"]>>

InitFsIdle ==
  /\ fsKind = [p \in PathNames |-> IF p = "../r2" THEN "none"
                                   ELSE IF p = "a" THEN "file" ELSE "dir"]
  /\ call = NoOp
  /\ result = None
  /\ listdir = <<[name |-> "f", kind |-> "file"]>>

CallLs ==
  \E p \in PathNames :
    /\ call' = [op |-> "ls", path |-> p, depth |-> 0]
    /\ result' = ls(fsKind, p)
    /\ UNCHANGED <<fsKind, listdir>>
    /\ UNCHANGED <<schedVars, loopVars, runVars>>

CallCat ==
  \E p \in PathNames :
    /\ call' = [op |-> "cat", path |-> p, depth |-> 0]
    /\ result' = cat(fsKind, p)
    /\ UNCHANGED <<fsKind, listdir>>
    /\ UNCHANGED <<schedVars, loopVars, runVars>>

CallTree ==
  \E p \in PathNames, d \in Depths :
    /\ call' = [op |-> "tree", path |-> p, depth |-> d]
    /\ result' = tree(fsKind, p, d)
    /\ UNCHANGED <<fsKind, listdir>>
    /\ UNCHANGED <<schedVars, loopVars, runVars>>

NextFs == CallLs \/ CallCat \/ CallTree

(***************************************************************************)
(* Agent execution loop: replies, commands, instructions                   *)
(***************************************************************************)
DevMaxStep == 100
RevMaxStep == 200

\* dict[key] = value
put(d, key, value) ==
  [x \in (DOMAIN d) \cup {key} |-> IF x = key THEN value ELSE d[x]]

EmptyDict == [x \in {} |-> ""]

\* A command is the list of the words of its text; its text joins them
\* with single blanks.
RECURSIVE join(_, _)
join(words, sep) ==
  IF Len(words) = 0 THEN ""
  ELSE IF Len(words) = 1 THEN words[1]
  ELSE words[1] \o sep \o join(Tail(words), sep)

text(command) == join(command, " ")

Commands ==
  { <<"cat", "a">>,
    <<"tree", ".">>, <<"tree", ".", "x">>, <<"grep", "a", "x">> }

\* int(s) of Python, on the words the model uses
is_int(word) == word \in {"0", "1", "2", "-1"}
to_int(word) ==
  CASE word = "0" -> 0 [] word = "1" -> 1 [] word = "2" -> 2 [] word = "-1" -> 0 - 1

\* A change of a 'complete' reply, with the answer git apply gives to it.
Changes ==
  { [path |-> "a", applies |-> TRUE], [path |-> "b.txt", applies |-> FALSE] }

\* A value a reply gives for start_line or end_line: a JSON integer, a
\* JSON number with a fraction, a string of digits, another string or null.
\* text is what str() gives for it, val the number int() gives for it.
LineValue(kind, txt, val) == [kind |-> kind, text |-> txt, val |-> val]
IntLine(n) == LineValue("int", ToString(n), n)
\* int(v) of Python returns for an int, a float and a string of digits; it
\* raises ValueError for another string and TypeError for None
int_ok(v) == v.kind \in {"int", "float", "digits"}

\* A comment of a review: an object with the keys it holds, or a value
\* that is no object.
CommentKeys == {"path", "start_line", "end_line", "comment", "severity"}
Comment(shape, keys, severity, start_line, end_line) ==
  [shape |-> shape, keys |-> keys, path |-> "a.txt", start_line |-> start_line,
   end_line |-> end_line, comment |-> "c", severity |-> severity]
Comments ==
  { Comment("object", CommentKeys, "info", IntLine(1), IntLine(2)),
    Comment("object", CommentKeys, "error", IntLine(1), IntLine(2)),
    Comment("object", CommentKeys, "fatal", IntLine(1), IntLine(2)),
    Comment("string", {}, "", IntLine(0), IntLine(0)) }

\* The comments of the replies of a review on its own: the three
\* severities, two error comments that differ, line bounds that are no
\* integers or are out of order, a bound int() rejects and a missing key.
ReviewComments ==
  { Comment("object", CommentKeys, "info", IntLine(1), IntLine(2)),
    Comment("object", CommentKeys, "error", IntLine(1), IntLine(2)),
    Comment("object", CommentKeys, "warning", IntLine(1), IntLine(2)),
    Comment("object", CommentKeys, "error", IntLine(3), IntLine(4)),
    Comment("object", CommentKeys, "error", LineValue("float", "1.5", 1), IntLine(2)),
    Comment("object", CommentKeys, "info", IntLine(5), IntLine(2)),
    Comment("object", CommentKeys, "info", LineValue("word", "x", 0), IntLine(2)),
    Comment("object", CommentKeys \ {"end_line"}, "info", IntLine(1), IntLine(0)) }

SeqsUpTo(S, n) == UNION {[1..k -> S] : k \in 0..n}

\* The text of a remote reply. json: what json.loads makes of it
\* ("invalid": JSONDecodeError with message err; "list", "string",
\* "number": a value that is no object; "object": a dict with the given
\* keys).
ParseErrors == {"Expecting value", "Extra data"}

Reply(json, err, keys, status, commit_message, changes, commands, comments_is_list, comments) ==
  [json |-> json, err |-> err, keys |-> keys, status |-> status,
   commit_message |-> commit_message, changes |-> changes, commands |-> commands,
   comments_is_list |-> comments_is_list, comments |-> comments]

InvalidReplies ==
  {Reply("invalid", e, {}, "", "", <<>>, <<>>, TRUE, <<>>) : e \in ParseErrors}

NonObjectReplies ==
  {Reply(j, "", {}, "", "", <<>>, <<>>, TRUE, <<>>) : j \in {"list", "string", "number"}}

StatusReplies ==
  { Reply("object", "", {}, "", "", <<>>, <<>>, TRUE, <<>>),
    Reply("object", "", {"status"}, "done", "", <<>>, <<>>, TRUE, <<>>) }

\* The commands of the prompts (ls, tree, cat) and the grep of bash_tools,
\* one command in a reply.
ProtocolCommands ==
  { <<"ls", ".">>, <<"cat", "a">>, <<"tree", ".", "1">>, <<"grep", "a", "x">> }

ProtocolReplies ==
  {Reply("object", "", {"status", "commands"}, "need_more_info", "", <<>>, <<c>>, TRUE, <<>>) :
     c \in ProtocolCommands}

NeedMoreInfoReplies ==
  {Reply("object", "", {"status", "commands"}, "need_more_info", "", <<>>, cs, TRUE, <<>>) :
     cs \in SeqsUpTo(Commands, MaxCmds)}
  \cup {Reply("object", "", {"status"}, "need_more_info", "", <<>>, <<>>, TRUE, <<>>)}

DevCompleteReplies ==
  {Reply("object", "", {"status", "changes", "commit_message"}, "complete", m, ch, <<>>, TRUE, <<>>) :
     m \in {"", "m"}, ch \in SeqsUpTo(Changes, MaxChanges)}
  \cup {Reply("object", "", {"status", "changes"}, "complete", "", ch, <<>>, TRUE, <<>>) :
          ch \in SeqsUpTo(Changes, MaxChanges)}
  \cup {Reply("object", "", {"status", "commit_message"}, "complete", "m", <<>>, <<>>, TRUE, <<>>)}

\* A patch in the other format: not the text of a unified diff but an
\* object holding hunks {old_start, old_len, new_lines} (0-indexed line
\* ranges) for the file a.
MaxHunks == 2
Hunk(old_start, old_len, new_lines) ==
  [old_start |-> old_start, old_len |-> old_len, new_lines |-> new_lines]
Hunks ==
  { Hunk(1, 2, <<"X">>), Hunk(0, 1, <<"hi">>), Hunk(2, 2, <<"Y">>),
    Hunk(3, 2, <<"Z">>), Hunk(3, 1, <<>>) }
HunkChanges ==
  { [path |-> "a", hunks |-> hs] : hs \in SeqsUpTo(Hunks, MaxHunks) \ {<<>>} }
HunkReplies ==
  {Reply("object", "", {"status", "changes", "commit_message"}, "complete", "m", <<ch>>, <<>>, TRUE, <<>>) :
     ch \in HunkChanges}

\* 'complete' replies of a review: with no comment or one, with a
\* 'comments' that is no list, and without 'comments'
RevCompleteReplies ==
  {Reply("object", "", {"status", "comments"}, "complete", "", <<>>, <<>>, TRUE, cm) :
     cm \in {<<>>} \cup {<<c>> : c \in Comments}}
  \cup {Reply("object", "", {"status", "comments"}, "complete", "", <<>>, <<>>, FALSE, <<>>),
        Reply("object", "", {"status"}, "complete", "", <<>>, <<>>, TRUE, <<>>)}

\* 'complete' replies with up to MaxComments comments
ReviewReplies ==
  {Reply("object", "", {"status", "comments"}, "complete", "", <<>>, <<>>, TRUE, cm) :
     cm \in SeqsUpTo(ReviewComments, MaxComments)}
  \cup {Reply("object", "", {"status", "comments"}, "complete", "", <<>>, <<>>, FALSE, <<>>),
        Reply("object", "", {"status"}, "complete", "", <<>>, <<>>, TRUE, <<>>)}

DevReplies ==
  InvalidReplies \cup NonObjectReplies \cup StatusReplies \cup NeedMoreInfoReplies
    \cup DevCompleteReplies
RevReplies ==
  InvalidReplies \cup NonObjectReplies \cup StatusReplies \cup NeedMoreInfoReplies
    \cup RevCompleteReplies

\* response.get("status", "")
status_of(r) == IF "status" \in r.keys THEN r.status ELSE ""

\* The instructions (current_request): the first one and the corrective
\* ones, each with the text it embeds.
Request(kind, detail) == [kind |-> kind, detail |-> detail]
InitialRequest == Request("initial", "")
ParseErrorRequest(e) == Request("parse_error", e)
\* the same text without the path of the change
ApplyFailedRequest_no_path(path) == Request("apply_failed", "")
ApplyFailedRequest(path) == Request("apply_failed", path)
InvalidTreeRequest(command) == Request("invalid_tree", text(command))
InvalidDepthRequest(command) == Request("invalid_depth", text(command))
InvalidCommandRequest(command) == Request("invalid_command", text(command))
InvalidStatusRequest(s) == Request("invalid_status", s)
InvalidCommentsRequest(reason) == Request("invalid_comments", reason)

ExceededText == "Exceeded maximum number of steps"

\* a command the loop does not execute: not ls, cat or tree with an
\* argument, or a tree whose arguments are not a path and an integer
Unrecognized(command) == ~(command[1] \in {"ls", "cat", "tree"} /\ Len(command) >= 2)
BadTree(command) ==
  /\ command[1] = "tree" /\ Len(command) >= 2
  /\ (Len(command) # 3 \/ command[3] \notin {"0", "1", "2", "-1"})
Offending(command) == Unrecognized(command) \/ BadTree(command)

\* cat(path) on the working tree as the loop finds it: the text of a file
\* that git apply has written (w: the paths written) is its patched text
read(k, w, p) ==
  IF cat(k, p) = text_of(p) /\ p \in w THEN text_of(p) \o " patched" ELSE cat(k, p)

\* the first such command of a list, <<>> when there is none
FirstOffending(commands) ==
  IF \E i \in 1..Len(commands) : Offending(commands[i])
  THEN commands[CHOOSE i \in 1..Len(commands) :
                  Offending(commands[i]) /\ \A j \in 1..(i - 1) : ~Offending(commands[j])]
  ELSE <<>>

\* the same loop with a command that is not recognized passed over in
\* silence
RECURSIVE run_commands_skip(_, _, _, _, _, _, _)
run_commands_skip(k, w, commands, c, req, done, writes) ==
  IF Len(commands) = 0
  THEN [context |-> c, request |-> req, ran |-> done, writes |-> writes]
  ELSE
    LET command == Head(commands)
        rest == Tail(command)
        path == join(rest, " ")
        stop(r) == [context |-> c, request |-> r, ran |-> done, writes |-> writes + 1]
        next(label, value) ==
          run_commands_skip(k, w, Tail(commands), put(c, label, value), req,
                            done + 1, writes + 1)
    IN
      IF command[1] = "ls" /\ Len(command) >= 2
      THEN next("LS_OUTPUT " \o path, ls(k, path))
      ELSE IF command[1] = "cat" /\ Len(command) >= 2
      THEN next("CAT_OUTPUT " \o path, read(k, w, path))
      ELSE IF command[1] = "tree" /\ Len(command) >= 2
      THEN
        IF Len(rest) # 2 THEN stop(InvalidTreeRequest(command))
        ELSE IF ~is_int(rest[2]) THEN stop(InvalidDepthRequest(command))
        ELSE next("TREE_OUTPUT " \o rest[1] \o " " \o ToString(to_int(rest[2])),
                  tree(k, rest[1], to_int(rest[2])))
      ELSE run_commands_skip(k, w, Tail(commands), c, req, done, writes)

\* the same loop with the result of a command executed but not stored
RECURSIVE run_commands_drop(_, _, _, _, _, _, _)
run_commands_drop(k, w, commands, c, req, done, writes) ==
  IF Len(commands) = 0
  THEN [context |-> c, request |-> req, ran |-> done, writes |-> writes]
  ELSE
    LET command == Head(commands)
        rest == Tail(command)
        path == join(rest, " ")
        stop(r) == [context |-> c, request |-> r, ran |-> done, writes |-> writes + 1]
        next(label, value) ==
          run_commands_drop(k, w, Tail(commands), c, req,
                       done + 1, writes + 1)
    IN
      IF command[1] = "ls" /\ Len(command) >= 2
      THEN next("LS_OUTPUT " \o path, ls(k, path))
      ELSE IF command[1] = "cat" /\ Len(command) >= 2
      THEN next("CAT_OUTPUT " \o path, read(k, w, path))
      ELSE IF command[1] = "tree" /\ Len(command) >= 2
      THEN
        IF Len(rest) # 2 THEN stop(InvalidTreeRequest(command))
        ELSE IF ~is_int(rest[2]) THEN stop(InvalidDepthRequest(command))
        ELSE next("TREE_OUTPUT " \o rest[1] \o " " \o ToString(to_int(rest[2])),
                  tree(k, rest[1], to_int(rest[2])))
      ELSE stop(InvalidCommandRequest(command))

\* for command in commands: ... (the same in developer.py and reviewer.py)
\* c: the context so far, req: the instruction so far, done: the number
\* of commands executed so far, writes: the log writes so far.
RECURSIVE run_commands(_, _, _, _, _, _, _)
run_commands(k, w, commands, c, req, done, writes) ==
  IF Len(commands) = 0
  THEN [context |-> c, request |-> req, ran |-> done, writes |-> writes]
  ELSE
    LET command == Head(commands)
        rest == Tail(command)
        path == join(rest, " ")
        stop(r) == [context |-> c, request |-> r, ran |-> done, writes |-> writes + 1]
        next(label, value) ==
          run_commands(k, w, Tail(commands), put(c, label, value), req,
                       done + 1, writes + 1)
    IN
      IF command[1] = "ls" /\ Len(command) >= 2
      THEN next("LS_OUTPUT " \o path, ls(k, path))
      ELSE IF command[1] = "cat" /\ Len(command) >= 2
      THEN next("CAT_OUTPUT " \o path, read(k, w, path))
      ELSE IF command[1] = "tree" /\ Len(command) >= 2
      THEN
        IF Len(rest) # 2 THEN stop(InvalidTreeRequest(command))
        ELSE IF ~is_int(rest[2]) THEN stop(InvalidDepthRequest(command))
        ELSE next("TREE_OUTPUT " \o rest[1] \o " " \o ToString(to_int(rest[2])),
                  tree(k, rest[1], to_int(rest[2])))
      ELSE stop(InvalidCommandRequest(command))

(***************************************************************************)
(* ls: the listing of a directory                                          *)
(***************************************************************************)
MaxEntries == 2

EXCLUDED_DIRS == <<".git", ".venv", "logs", "__pycache__", "*.pyc", "*.egg-info">>

\* Python's `sub in s` for two strings
contains(sub, s) ==
  \E i \in 1..(Len(s) - Len(sub) + 1) : SubSeq(s, i, i + Len(sub) - 1) = sub

\* os.path.join(path, item)
path_join(path, item) == path \o os_sep \o item

\* any(excluded in item_path for excluded in EXCLUDED_DIRS)
excluded_item(item_path) ==
  \E i \in 1..Len(EXCLUDED_DIRS) : contains(EXCLUDED_DIRS[i], item_path)

\* if any(...): continue
skipped(path, e) == excluded_item(path_join(path, e.name))

\* the line of one child
item_of(e) ==
  IF e.kind = "dir" THEN e.name \o "/"
  ELSE IF e.kind = "file" THEN e.name
  ELSE e.name \o " (unknown)"

\* items: the loop over os.listdir(path)
ls_items(path, es) ==
  LET kept == SelectSeq(es, LAMBDA e : ~skipped(path, e)) IN
  [i \in 1..Len(kept) |-> item_of(kept[i])]

\* ls for a directory inside the sandbox: "\n".join(items)
ls_dir(k, path, es) ==
  IF ls(k, path) = listing_of(path) THEN join(ls_items(path, es), "\n")
  ELSE ls(k, path)

\* The children a directory may hold: source and noise directories, files,
\* names that hold the name of a noise directory, a broken link.
Children ==
  { [name |-> "src",          kind |-> "dir"],
    [name |-> "a.py",         kind |-> "file"],
    [name |-> ".git",         kind |-> "dir"],
    [name |-> ".venv",        kind |-> "dir"],
    [name |-> "logs",         kind |-> "dir"],
    [name |-> "__pycache__",  kind |-> "dir"],
    [name |-> "pkg.egg-info", kind |-> "dir"],
    [name |-> "catalogs",     kind |-> "dir"],
    [name |-> ".github",      kind |-> "dir"],
    [name |-> "dialogs.py",   kind |-> "file"],
    [name |-> "lnk",          kind |-> "other"] }
Listings ==
  {es \in SeqsUpTo(Children, MaxEntries) :
     \A i, j \in 1..Len(es) : i # j => es[i].name # es[j].name}

InitLs ==
  /\ fsKind \in {k \in FsKinds : k["a"] = "dir" /\ k["../r2"] = "none" /\ k["/e"] # "file"}
  /\ call = NoOp
  /\ result = None
  /\ listdir \in Listings

\* ls(path), the directory holding the children `listdir`
CallLsDir ==
  \E p \in PathNames :
    /\ call' = [op |-> "ls", path |-> p, depth |-> 0]
    /\ result' = ls_dir(fsKind, p, listdir)
    /\ UNCHANGED <<fsKind, listdir>>
    /\ UNCHANGED <<schedVars, loopVars, runVars>>

(***************************************************************************)
(* Developer.execute_task                                                  *)
(***************************************************************************)
\* change["patch"] is a str: the text git apply reads from its standard
\* input. subprocess.run(input = ..., text = True) raises for an object.
is_text(change) == "hunks" \notin DOMAIN change

\* the same index when the answer of git apply is not looked at
first_failed_none(changes, i) == 0

\* for change in response["changes"]: apply_diff_for_file(...); the index
\* of the first change that is not applied (git apply rejects it, or its
\* patch cannot be handed to git apply), 0 when every change applies.
RECURSIVE first_failed(_, _)
first_failed(changes, i) ==
  IF i > Len(changes) THEN 0
  ELSE IF ~is_text(changes[i]) THEN i
  ELSE IF ~changes[i].applies THEN i
  ELSE first_failed(changes, i + 1)

\* the lines of the file a once the unified diff of a change is applied
patched_lines == <<"patched">>
lines_after(lines, paths) == IF "a" \in paths THEN patched_lines ELSE lines

\* the paths written by changes[1..n]
written(changes, n) == {changes[i].path : i \in 1..n}

\* json.dumps(response["changes"])
dumps(changes) == join([i \in 1..Len(changes) |-> changes[i].path], ",")

\* raw_response = self.llm.text(context, current_request);
\* response = json.loads(raw_response)
NotCounted == [counted |-> FALSE, made |-> 0, parsed |-> 0]
Counted == [counted |-> TRUE, made |-> 0, parsed |-> 0]
call_made(c, parses) ==
  IF c.counted
  THEN [c EXCEPT !.made = @ + 1, !.parsed = IF parses THEN @ + 1 ELSE @]
  ELSE c

InitLoop ==
  /\ role \in {"developer", "reviewer"}
  /\ pc = "running"
  /\ step = 0 - 1
  /\ ctx_step = 0
  /\ current_request = InitialRequest
  /\ prompt_context = IF role = "developer" THEN put(EmptyDict, "TASK", "task")
                      ELSE EmptyDict
  /\ worktree = {}
  /\ log_final = EmptyDict
  /\ review_finished = FALSE
  /\ ran = 0
  /\ chat = "empty"
  /\ invocation = 1
  /\ offending = <<>>
  /\ a_lines = <<"L1">>
  /\ calls = NotCounted

InitLoopIdle ==
  /\ role = "developer"
  /\ pc = "complete"
  /\ step = 0 - 1
  /\ ctx_step = 0
  /\ current_request = InitialRequest
  /\ prompt_context = EmptyDict
  /\ worktree = {}
  /\ log_final = EmptyDict
  /\ review_finished = FALSE
  /\ ran = 0
  /\ chat = "empty"
  /\ invocation = 1
  /\ offending = <<>>
  /\ a_lines = <<"L1">>
  /\ calls = NotCounted

\* the same exit without the write of developer_final.txt
DevExceeded_silent ==
  /\ role = "developer" /\ pc = "running"
  /\ step + 1 > DevMaxStep
  /\ step' = step + 1
  /\ pc' = "exceeded"
  /\ ran' = 0
  /\ chat' = chat
  /\ offending' = <<>>
  /\ UNCHANGED <<invocation, role, ctx_step, current_request, prompt_context, worktree, log_final,
                 review_finished>>
  /\ UNCHANGED <<schedVars, fsVars, runVars, a_lines, calls>>

\* step += 1; if step > 100: log.write_text("developer_final.txt", ...); break
DevExceeded ==
  /\ role = "developer" /\ pc = "running"
  /\ step + 1 > DevMaxStep
  /\ step' = step + 1
  /\ log_final' = put(log_final, "developer_final.txt", ExceededText)
  /\ pc' = "exceeded"
  /\ ran' = 0
  /\ chat' = chat
  /\ offending' = <<>>
  /\ UNCHANGED <<invocation, role, ctx_step, current_request, prompt_context, worktree, review_finished>>
  /\ UNCHANGED <<schedVars, fsVars, runVars, a_lines, calls>>

\* the same test in a loop that goes on after its break
DevCalls_after_break(r) ==
  /\ role = "developer"
  /\ step + 1 <= DevMaxStep
  /\ calls' = call_made(calls, r.json # "invalid")

\* the same test with the budget one unit larger
DevCalls_one_more(r) ==
  /\ role = "developer" /\ pc = "running"
  /\ step + 1 <= DevMaxStep + 1
  /\ calls' = call_made(calls, r.json # "invalid")

\* the remote call of one round is made: the budget is not exceeded
DevCalls(r) ==
  /\ role = "developer" /\ pc = "running"
  /\ step + 1 <= DevMaxStep
  /\ calls' = call_made(calls, r.json # "invalid")

\* the same handler without the new instruction
DevParseError_keeps_request(r) ==
  /\ DevCalls(r)
  /\ r.json = "invalid"
  /\ step' = step + 1
  /\ ran' = 0
  /\ chat' = "turns"
  /\ offending' = <<>>
  /\ UNCHANGED <<invocation, role, pc, ctx_step, current_request, prompt_context, worktree, log_final,
                 review_finished>>
  /\ UNCHANGED <<schedVars, fsVars, runVars, a_lines>>

\* except json.JSONDecodeError as e: current_request = ...; continue
DevParseError(r) ==
  /\ DevCalls(r)
  /\ r.json = "invalid"
  /\ step' = step + 1
  /\ current_request' = ParseErrorRequest(r.err)
  /\ ran' = 0
  /\ chat' = "turns"
  /\ offending' = <<>>
  /\ UNCHANGED <<invocation, role, pc, ctx_step, prompt_context, worktree, log_final, review_finished>>
  /\ UNCHANGED <<schedVars, fsVars, runVars, a_lines>>

\* json.loads gives a list, a string or a number: response.get raises
\* AttributeError, which nothing catches
DevNonObject(r) ==
  /\ DevCalls(r)
  /\ r.json \in {"list", "string", "number"}
  /\ step' = step + 2
  /\ pc' = "raised"
  /\ ran' = 0
  /\ chat' = "turns"
  /\ offending' = <<>>
  /\ UNCHANGED <<invocation, role, ctx_step, current_request, prompt_context, worktree, log_final,
                 review_finished>>
  /\ UNCHANGED <<schedVars, fsVars, runVars, a_lines>>

\* if response.get("status", "") == "complete": ...
DevComplete(r) ==
  /\ DevCalls(r)
  /\ r.json = "object" /\ status_of(r) = "complete"
  /\ step' = step + 2
  /\ ran' = 0
  /\ chat' = "turns"
  /\ offending' = <<>>
  /\ IF "changes" \notin r.keys
     THEN \* response["changes"]: KeyError
          /\ pc' = "raised"
          /\ UNCHANGED <<current_request, prompt_context, worktree, a_lines>>
     ELSE LET failed == first_failed(r.changes, 1) IN
          IF failed # 0
          THEN /\ worktree' = worktree \cup written(r.changes, failed - 1)
               /\ a_lines' = lines_after(a_lines, written(r.changes, failed - 1))
               /\ IF is_text(r.changes[failed])
                  THEN /\ current_request' = ApplyFailedRequest(r.changes[failed].path)
                       /\ UNCHANGED <<pc, prompt_context>>
                  ELSE \* subprocess.run raises: the patch is no str
                       /\ pc' = "raised"
                       /\ UNCHANGED <<current_request, prompt_context>>
          ELSE /\ worktree' = worktree \cup written(r.changes, Len(r.changes))
               /\ a_lines' = lines_after(a_lines, written(r.changes, Len(r.changes)))
               /\ IF "commit_message" \notin r.keys
                  THEN \* response["commit_message"]: KeyError
                       /\ pc' = "raised"
                       /\ UNCHANGED prompt_context
                  ELSE /\ prompt_context' =
                            put(put(prompt_context, "COMMIT_MESSAGE", r.commit_message),
                                "DIFF_CONTENT", dumps(r.changes))
                       /\ pc' = "complete"
               /\ UNCHANGED current_request
  /\ UNCHANGED <<invocation, role, ctx_step, log_final, review_finished>>
  /\ UNCHANGED <<schedVars, fsVars, runVars>>

\* elif response.get("status", "") == "need_more_info": ...
DevNeedMoreInfo(r) ==
  /\ DevCalls(r)
  /\ r.json = "object" /\ status_of(r) = "need_more_info"
  /\ step' = step + 2
  /\ IF "commands" \notin r.keys
     THEN \* response["commands"]: KeyError
          /\ pc' = "raised"
          /\ ran' = 0
          /\ chat' = "turns"
          /\ offending' = <<>>
          /\ UNCHANGED <<current_request, prompt_context>>
     ELSE \E out \in {run_commands(fsKind, worktree, r.commands, prompt_context, current_request,
                                     0, 0)} :
          /\ prompt_context' = out.context
          /\ current_request' = out.request
          /\ ran' = out.ran
          /\ chat' = IF out.ran > 0 THEN "empty" ELSE "turns"
          /\ offending' = FirstOffending(r.commands)
          /\ UNCHANGED pc
  /\ UNCHANGED <<invocation, role, ctx_step, worktree, log_final, review_finished>>
  /\ UNCHANGED <<schedVars, fsVars, runVars, a_lines>>

\* else: current_request = f"Invalid response status: ..."
DevInvalidStatus(r) ==
  /\ DevCalls(r)
  /\ r.json = "object" /\ status_of(r) \notin {"complete", "need_more_info"}
  /\ step' = step + 2
  /\ current_request' = InvalidStatusRequest(status_of(r))
  /\ ran' = 0
  /\ chat' = "turns"
  /\ offending' = <<>>
  /\ UNCHANGED <<invocation, role, pc, ctx_step, prompt_context, worktree, log_final, review_finished>>
  /\ UNCHANGED <<schedVars, fsVars, runVars, a_lines>>

NextDeveloper ==
  \/ DevExceeded
  \/ \E r \in InvalidReplies : DevParseError(r)
  \/ \E r \in NonObjectReplies : DevNonObject(r)
  \/ \E r \in DevCompleteReplies : DevComplete(r)
  \/ \E r \in NeedMoreInfoReplies : DevNeedMoreInfo(r)
  \/ \E r \in StatusReplies : DevInvalidStatus(r)

(***************************************************************************)
(* Reviewer.review_task                                                    *)
(* Its local `step` is written and never read; the model leaves it out.    *)
(* Every Context.write_text and Context.write_json adds one to ctx_step.   *)
(***************************************************************************)
\* for i, c in enumerate(comments): ... invalid = ...; break
\* The reason the first invalid comment is rejected with, "" when every
\* comment is valid. i counts from 0 as enumerate does.
RECURSIVE invalid_comment(_, _)
invalid_comment(comments, i) ==
  IF Len(comments) = 0 THEN ""
  ELSE LET c == Head(comments) IN
    IF c.shape # "object"
    THEN "Comment at index " \o ToString(i) \o " is not an object"
    ELSE IF ~(CommentKeys \subseteq c.keys)
    THEN "Comment at index " \o ToString(i) \o " is missing keys"
    ELSE IF c.severity \notin {"info", "warning", "error"}
    THEN "Invalid severity in comment at index " \o ToString(i) \o ": " \o c.severity
    ELSE IF ~(int_ok(c.start_line) /\ int_ok(c.end_line))
    THEN "start_line and end_line must be integers in comment at index " \o ToString(i)
    ELSE invalid_comment(Tail(comments), i + 1)

\* comments = response.get("comments", []); invalid = ...
invalid_of(r) ==
  IF "comments" \notin r.keys THEN ""
  ELSE IF ~r.comments_is_list THEN "'comments' must be a list"
  ELSE invalid_comment(r.comments, 0)

\* the same list with the comments of severity warning in it too
RECURSIVE summary_of_warnings(_)
summary_of_warnings(comments) ==
  IF Len(comments) = 0 THEN <<>>
  ELSE LET c == Head(comments) IN
    IF c.severity \in {"error", "warning"}
    THEN <<c.path \o ":" \o c.start_line.text \o "-" \o c.end_line.text \o " [" \o c.severity
            \o "]: " \o c.comment>> \o summary_of_warnings(Tail(comments))
    ELSE summary_of_warnings(Tail(comments))

\* the same list built by insert(0, ...): the last error comes first
RECURSIVE summary_of_reversed(_)
summary_of_reversed(comments) ==
  IF Len(comments) = 0 THEN <<>>
  ELSE LET c == Head(comments) IN
    IF c.severity = "error"
    THEN summary_of_reversed(Tail(comments)) \o
         <<c.path \o ":" \o c.start_line.text \o "-" \o c.end_line.text \o " [" \o c.severity
            \o "]: " \o c.comment>>
    ELSE summary_of_reversed(Tail(comments))

\* for c in comments: if c["severity"] == "error": summary.append(...)
RECURSIVE summary_of(_)
summary_of(comments) ==
  IF Len(comments) = 0 THEN <<>>
  ELSE LET c == Head(comments) IN
    IF c.severity = "error"
    THEN <<c.path \o ":" \o c.start_line.text \o "-" \o c.end_line.text \o " [" \o c.severity
            \o "]: " \o c.comment>> \o summary_of(Tail(comments))
    ELSE summary_of(Tail(comments))

\* the same exit when it reports the review as finished
RevExceeded_converged ==
  /\ role = "reviewer" /\ pc = "running"
  /\ ctx_step > RevMaxStep
  /\ ctx_step' = ctx_step + 1
  /\ log_final' = put(log_final, "reviewer_final.txt", ExceededText)
  /\ review_finished' = TRUE
  /\ pc' = "exceeded"
  /\ ran' = 0
  /\ chat' = chat
  /\ offending' = <<>>
  /\ UNCHANGED <<invocation, role, step, current_request, prompt_context, worktree>>
  /\ UNCHANGED <<schedVars, fsVars, runVars, a_lines, calls>>

\* if context.step > 200: context.write_text("reviewer_final.txt", ...); break
RevExceeded ==
  /\ role = "reviewer" /\ pc = "running"
  /\ ctx_step > RevMaxStep
  /\ ctx_step' = ctx_step + 1
  /\ log_final' = put(log_final, "reviewer_final.txt", ExceededText)
  /\ pc' = "exceeded"
  /\ ran' = 0
  /\ chat' = chat
  /\ offending' = <<>>
  /\ UNCHANGED <<invocation, role, step, current_request, prompt_context, worktree, review_finished>>
  /\ UNCHANGED <<schedVars, fsVars, runVars, a_lines, calls>>

RevCalls(r) ==
  /\ role = "reviewer" /\ pc = "running"
  /\ ctx_step <= RevMaxStep

\* the same handler without the write to the log, the only thing that
\* advances Context.step
RevParseError_no_write(r) ==
  /\ RevCalls(r)
  /\ r.json = "invalid"
  /\ current_request' = ParseErrorRequest(r.err)
  /\ ran' = 0
  /\ chat' = "turns"
  /\ offending' = <<>>
  /\ UNCHANGED <<invocation, role, pc, step, ctx_step, prompt_context, worktree, log_final,
                 review_finished>>
  /\ UNCHANGED <<schedVars, fsVars, runVars, a_lines, calls>>

\* except json.JSONDecodeError as e: context.write_text(...);
\* current_request = ...; continue
RevParseError(r) ==
  /\ RevCalls(r)
  /\ r.json = "invalid"
  /\ ctx_step' = ctx_step + 1
  /\ current_request' = ParseErrorRequest(r.err)
  /\ ran' = 0
  /\ chat' = "turns"
  /\ offending' = <<>>
  /\ UNCHANGED <<invocation, role, pc, step, prompt_context, worktree, log_final, review_finished>>
  /\ UNCHANGED <<schedVars, fsVars, runVars, a_lines, calls>>

\* context.write_json(...); status = response.get(...): AttributeError
RevNonObject(r) ==
  /\ RevCalls(r)
  /\ r.json \in {"list", "string", "number"}
  /\ ctx_step' = ctx_step + 1
  /\ pc' = "raised"
  /\ ran' = 0
  /\ chat' = "turns"
  /\ offending' = <<>>
  /\ UNCHANGED <<invocation, role, step, current_request, prompt_context, worktree, log_final,
                 review_finished>>
  /\ UNCHANGED <<schedVars, fsVars, runVars, a_lines, calls>>

\* if status == "complete": ...
RevComplete(r) ==
  /\ RevCalls(r)
  /\ r.json = "object" /\ status_of(r) = "complete"
  /\ ran' = 0
  /\ chat' = "turns"
  /\ offending' = <<>>
  /\ LET invalid == invalid_of(r)
         comments == IF "comments" \in r.keys THEN r.comments ELSE <<>>
         summary == join(summary_of(comments), "\n")
     IN
     IF invalid # ""
     THEN /\ ctx_step' = ctx_step + 2
          /\ current_request' = InvalidCommentsRequest(invalid)
          /\ UNCHANGED <<pc, prompt_context, log_final, review_finished>>
     ELSE /\ ctx_step' = ctx_step + 3
          /\ prompt_context' = put(prompt_context, "REVIEW_SUMMARY", summary)
          /\ log_final' = put(put(log_final, "reviewer_final.json", r),
                              "reviewer_final.txt", summary)
          /\ review_finished' = IF summary_of(comments) = <<>> THEN TRUE
                                ELSE review_finished
          /\ pc' = "complete"
          /\ UNCHANGED current_request
  /\ UNCHANGED <<invocation, role, step, worktree>>
  /\ UNCHANGED <<schedVars, fsVars, runVars, a_lines, calls>>

\* elif status == "need_more_info":
\*   for command in response.get("commands", []): ...
RevNeedMoreInfo(r) ==
  /\ RevCalls(r)
  /\ r.json = "object" /\ status_of(r) = "need_more_info"
  /\ \E out \in {run_commands(fsKind, worktree, IF "commands" \in r.keys THEN r.commands ELSE <<>>,
                                prompt_context, current_request, 0, 0)} :
     /\ ctx_step' = ctx_step + 1 + out.writes
     /\ prompt_context' = out.context
     /\ current_request' = out.request
     /\ ran' = out.ran
     /\ chat' = IF out.ran > 0 THEN "empty" ELSE "turns"
     /\ offending' = FirstOffending(IF "commands" \in r.keys THEN r.commands ELSE <<>>)
  /\ UNCHANGED <<invocation, role, pc, step, worktree, log_final, review_finished>>
  /\ UNCHANGED <<schedVars, fsVars, runVars, a_lines, calls>>

\* else: context.write_text(...); current_request = ...
RevInvalidStatus(r) ==
  /\ RevCalls(r)
  /\ r.json = "object" /\ status_of(r) \notin {"complete", "need_more_info"}
  /\ ctx_step' = ctx_step + 2
  /\ current_request' = InvalidStatusRequest(status_of(r))
  /\ ran' = 0
  /\ chat' = "turns"
  /\ offending' = <<>>
  /\ UNCHANGED <<invocation, role, pc, step, prompt_context, worktree, log_final, review_finished>>
  /\ UNCHANGED <<schedVars, fsVars, runVars, a_lines, calls>>

NextReviewer ==
  \/ RevExceeded
  \/ \E r \in InvalidReplies : RevParseError(r)
  \/ \E r \in NonObjectReplies : RevNonObject(r)
  \/ \E r \in RevCompleteReplies : RevComplete(r)
  \/ \E r \in NeedMoreInfoReplies : RevNeedMoreInfo(r)
  \/ \E r \in StatusReplies : RevInvalidStatus(r)

(***************************************************************************)
(* A task that invokes a loop again                                        *)
(***************************************************************************)
\* The caller invokes the loop once more in the same task. execute_task
\* starts again from step = -1 and a context dict it builds itself;
\* review_task is handed the same Context, whose step, prompt_context and
\* review_finished nothing resets. The LLM object and its chat belong to
\* the Developer or Reviewer object and stay.
Reinvoke ==
  /\ pc \in {"complete", "exceeded"}
  /\ invocation < MaxInvocations
  /\ invocation' = invocation + 1
  /\ pc' = "running"
  /\ step' = 0 - 1
  /\ current_request' = InitialRequest
  /\ prompt_context' = IF role = "developer" THEN put(EmptyDict, "TASK", "task")
                       ELSE prompt_context
  /\ ran' = 0
  /\ offending' = <<>>
  /\ UNCHANGED <<role, ctx_step, worktree, log_final, review_finished, chat>>
  /\ calls' = [calls EXCEPT !.made = 0, !.parsed = 0]
  /\ UNCHANGED <<schedVars, fsVars, runVars, a_lines>>

NextTask ==
  \/ DevExceeded
  \/ RevExceeded
  \/ \E r \in InvalidReplies : DevParseError(r)
  \/ \E r \in InvalidReplies : RevParseError(r)
  \/ \E r \in DevCompleteReplies : DevComplete(r)
  \/ \E r \in RevCompleteReplies : RevComplete(r)
  \/ Reinvoke

(***************************************************************************)
(* Specifications                                                          *)
(***************************************************************************)
vars == <<tasks, done_ids, picked, schedPc, fsKind, call, result, listdir,
          role, pc, step, ctx_step, current_request, prompt_context,
          worktree, log_final, review_finished, ran, chat, invocation,
          offending, a_lines, done_yaml, problems_yaml, clean, branches, branch,
          commits, checks, results, proposal, applied, rc, runs, calls>>

Init == InitSchedIdle /\ InitFsIdle /\ InitLoop /\ InitRunIdle
Next == NextDeveloper \/ NextReviewer
Spec == Init /\ [][Next]_vars

SchedInit == InitSched /\ InitFsIdle /\ InitLoopIdle /\ InitRunIdle
SchedSpec == SchedInit /\ [][NextSched]_vars

\* the loops with the replies that hold one command of the protocol
NextCmd ==
  \/ DevExceeded
  \/ RevExceeded
  \/ \E r \in ProtocolReplies : DevNeedMoreInfo(r)
  \/ \E r \in ProtocolReplies : RevNeedMoreInfo(r)
CmdSpec == Init /\ [][NextCmd]_vars

\* several invocations of a loop in one task
TaskSpec == Init /\ [][NextTask]_vars

\* one review, its replies all 'complete' ones
NextReview ==
  \/ RevExceeded
  \/ \E r \in ReviewReplies : RevComplete(r)
ReviewInit == Init /\ role = "reviewer"
ReviewSpec == ReviewInit /\ [][NextReview]_vars

FsInit == InitSchedIdle /\ InitFs /\ InitLoopIdle /\ InitRunIdle
FsSpec == FsInit /\ [][NextFs]_vars

\* the developer loop and its Complete replies, the file a being one
\* line or four lines long
NextPatch ==
  \/ DevExceeded
  \/ \E r \in InvalidReplies : DevParseError(r)
  \/ \E r \in DevCompleteReplies \cup HunkReplies : DevComplete(r)
PatchInit ==
  /\ InitSchedIdle /\ InitFsIdle /\ InitRunIdle
  /\ role = "developer"
  /\ pc = "running"
  /\ step = 0 - 1
  /\ ctx_step = 0
  /\ current_request = InitialRequest
  /\ prompt_context = put(EmptyDict, "TASK", "task")
  /\ worktree = {}
  /\ log_final = EmptyDict
  /\ review_finished = FALSE
  /\ ran = 0
  /\ chat = "empty"
  /\ invocation = 1
  /\ offending = <<>>
  /\ a_lines \in {<<"L1">>, <<"L1", "L2", "L3", "L4">>}
  /\ calls = NotCounted
PatchSpec == PatchInit /\ [][NextPatch]_vars

\* one invocation of the developer loop, its remote calls counted; the
\* replies are unparsable text, JSON that is no object and objects with
\* status complete or an unknown status
NextStep ==
  \/ DevExceeded
  \/ \E r \in InvalidReplies : DevParseError(r)
  \/ \E r \in NonObjectReplies : DevNonObject(r)
  \/ \E r \in DevCompleteReplies : DevComplete(r)
  \/ \E r \in StatusReplies : DevInvalidStatus(r)
StepInit ==
  /\ InitSchedIdle /\ InitFsIdle /\ InitRunIdle
  /\ role = "developer"
  /\ pc = "running"
  /\ step = 0 - 1
  /\ ctx_step = 0
  /\ current_request = InitialRequest
  /\ prompt_context = put(EmptyDict, "TASK", "task")
  /\ worktree = {}
  /\ log_final = EmptyDict
  /\ review_finished = FALSE
  /\ ran = 0
  /\ chat = "empty"
  /\ invocation = 1
  /\ offending = <<>>
  /\ a_lines = <<"L1">>
  /\ calls = Counted
StepSpec == StepInit /\ [][NextStep]_vars

\* ls called on directories with their children
LsInit == InitSchedIdle /\ InitLs /\ InitLoopIdle /\ InitRunIdle
LsSpec == LsInit /\ [][CallLsDir]_vars

\* run commands, one after the other, on one repository
RunInit ==
  /\ tasks \in RunBacklogs
  /\ done_ids = {}
  /\ picked = 0
  /\ schedPc = "load"
  /\ InitFsIdle
  /\ InitLoopIdle
  /\ InitRun
RunSpec == RunInit /\ [][NextRun]_vars

(***************************************************************************)
(* Backlog scheduler: claims                                               *)
(***************************************************************************)
\* task i is ready and all its deps are done
Qualifies(i) == tasks[i].status = "ready" /\ tasks[i].deps \subseteq done_ids

\* C1: pick_next_ready returns the first task, in declaration order, whose
\* status is 'ready' and whose deps are all in the done set, and None when
\* no task qualifies.
C1_FirstReady ==
  schedPc = "picked" =>
    IF \E i \in 1..Len(tasks) : Qualifies(i)
    THEN /\ picked \in 1..Len(tasks)
         /\ Qualifies(picked)
         /\ \A j \in 1..(picked - 1) : ~Qualifies(j)
    ELSE picked = 0

\* a later task is returned although an earlier one is ready: the earlier
\* one waits for a dep
C1_Witness ==
  /\ schedPc = "picked"
  /\ picked = 2
  /\ tasks[1].status = "ready"

TasksAB ==
  << [id |-> "A", status |-> "ready", deps |-> {}],
     [id |-> "B", status |-> "ready", deps |-> {"A"}] >>

\* C2: for A(deps=[]) and B(deps=[A]), both ready, the scheduler returns A
\* on the empty done set and B once A's id is in the done set, the task
\* list being the same.
C2_AThenB ==
  (tasks = TasksAB /\ schedPc = "picked") =>
    /\ done_ids = {} => picked = 1
    /\ done_ids = {"A"} => picked = 2

(***************************************************************************)
(* Sandboxed repository accessor: claims                                   *)
(***************************************************************************)
\* the names whose resolved form is neither the root /r nor below it
OutsidePaths == {"ln", "../r2", "/e", "a/../.."}

\* C3: for every path that resolves outside the sandbox, cat, ls and
\* tree (for every depth, negative ones too) return <FORBIDDEN>, whether the
\* path names a file, a directory or nothing.
C3_OutsideForbidden ==
  (call.op \in {"ls", "cat", "tree"} /\ call.path \in OutsidePaths) => result = FORBIDDEN

(***************************************************************************)
(* Agent execution loop: claims                                            *)
(***************************************************************************)
\* C4: when a reply cannot be parsed as JSON, the developer loop and the
\* reviewer loop execute no command, leave every label and value of the
\* context (and the working tree) as they were, and the instruction of the
\* next remote call is the corrective one that embeds the parser's error.
C4_ParseFailureFrame ==
  [][\A r \in InvalidReplies :
       (DevParseError(r) \/ RevParseError(r)) =>
         /\ ran' = 0
         /\ prompt_context' = prompt_context
         /\ worktree' = worktree
         /\ current_request'.kind = "parse_error"
         /\ current_request'.detail = r.err]_vars

\* a parse failure after a command has filled the context
C4_Witness ==
  /\ pc = "running"
  /\ current_request.kind = "parse_error"
  /\ "CAT_OUTPUT a" \in DOMAIN prompt_context

\* the rounds a running loop can still start: a remote call is made only
\* while this is at least 1
Budget ==
  IF role = "developer" THEN DevMaxStep - step ELSE (RevMaxStep + 1) - ctx_step

\* C5: whatever the replies are, one invocation of the developer loop and
\* one of the reviewer loop stop after finitely many remote calls: every
\* step of a running loop uses up at least one unit of its budget, and a
\* loop whose budget is used up stops at its next step.
C5_Terminates ==
  [][pc = "running" =>
       /\ Budget' < Budget
       /\ Budget < 1 => pc' = "exceeded"]_vars

\* a loop stopped by its budget, the last reply having been unparsable
C5_Witness ==
  /\ pc = "exceeded"
  /\ role = "reviewer"
  /\ current_request.kind = "parse_error"

\* the task log holds the loop's *_final.txt with the Exceeded text
ExceededReported ==
  LET name == IF role = "developer" THEN "developer_final.txt" ELSE "reviewer_final.txt"
  IN name \in DOMAIN log_final /\ log_final[name] = ExceededText

\* the loop is at the test of its budget and the budget is exceeded
BudgetExceeded ==
  /\ pc = "running"
  /\ IF role = "developer" THEN step + 1 > DevMaxStep ELSE ctx_step > RevMaxStep

\* C6: when the step counter exceeds the budget, the loop ends in Exceeded
\* without raising, and what the caller can observe (both loops return
\* None; the task log is what differs) is not what it observes after
\* Complete.
C6_ExceededDistinguished ==
  /\ [](pc = "exceeded" => ExceededReported)
  /\ [](pc = "complete" => ~ExceededReported)
  /\ [][BudgetExceeded => pc' = "exceeded"]_vars

C6_Witness ==
  /\ pc = "exceeded"
  /\ ExceededReported
  /\ role = "developer"

\* C7: in an invocation that ends because the budget was exceeded, no
\* earlier round ran the Complete-path logic: no change of a reply was
\* applied to the working tree, no commit message and no review summary
\* was recorded.
C7_ExceededNeverCompleted ==
  pc = "exceeded" =>
    /\ worktree = {}
    /\ "COMMIT_MESSAGE" \notin DOMAIN prompt_context
    /\ "REVIEW_SUMMARY" \notin DOMAIN prompt_context

\* C8: every reply, a JSON value that is no object and a 'complete' object
\* without 'changes' or 'commit_message' included, is recovered by a
\* corrective retry: no exception leaves the loop.
C8_NoExceptionEscapes == pc # "raised"

\* C9: the developer loop reaches Complete only for a reply whose
\* commit_message is a non-empty string.
C9_CompleteHasMessage ==
  (role = "developer" /\ pc = "complete") =>
    /\ "COMMIT_MESSAGE" \in DOMAIN prompt_context
    /\ prompt_context["COMMIT_MESSAGE"] # ""

\* C10: when a NeedMoreInfo reply holds a command that is not recognized,
\* or a tree command without exactly two arguments or with a depth that is
\* no integer, the instruction of the next remote call is a corrective one
\* that names that command; the loop stops at the first such command of the
\* reply, and that one is named.
C10_OffendingCommandNamed ==
  offending # <<>> =>
    /\ pc = "running"
    /\ current_request.kind =
         IF Unrecognized(offending) THEN "invalid_command"
         ELSE IF Len(offending) # 3 THEN "invalid_tree"
         ELSE "invalid_depth"
    /\ current_request.detail = join(offending, " ")

\* an unrecognized command named after the command before it was executed
C10_Witness ==
  /\ pc = "running"
  /\ offending = <<"grep", "a", "x">>
  /\ current_request = [kind |-> "invalid_command", detail |-> "grep a x"]
  /\ ran = 1

\* C11: a NeedMoreInfo reply that holds an unrecognized command is handled
\* as a parse failure is: in that round no command of the reply is executed
\* and no label or value of the context changes, wherever the command
\* stands in the list.
C11_UnrecognizedRunsNothing ==
  [][(offending' # <<>> /\ Unrecognized(offending')) =>
       (ran' = 0 /\ prompt_context' = prompt_context)]_vars

\* the label a command's result is stored under, and the result
label_of(command) ==
  CASE command[1] = "ls" -> "LS_OUTPUT " \o command[2]
    [] command[1] = "cat" -> "CAT_OUTPUT " \o command[2]
    [] command[1] = "tree" -> "TREE_OUTPUT " \o command[2] \o " " \o command[3]
    [] OTHER -> "GREP_OUTPUT " \o command[2] \o " " \o command[3]

result_of(command) ==
  CASE command[1] = "ls" -> ls(fsKind, command[2])
    [] command[1] = "cat" -> read(fsKind, worktree, command[2])
    [] command[1] = "tree" -> tree(fsKind, command[2], to_int(command[3]))

\* the round of reply r has executed its command and stored its result
Executed(r) ==
  /\ ran' = 1
  /\ label_of(r.commands[1]) \in DOMAIN prompt_context'
  /\ r.commands[1][1] # "grep" =>
       prompt_context'[label_of(r.commands[1])] = result_of(r.commands[1])

\* C12: a NeedMoreInfo reply whose command is 'ls <path>', 'tree <path>
\* <depth>', 'cat <path>' or 'grep <path> <pattern>' is executed and its
\* result is stored in the context, in the developer and the reviewer loop.
C12_FourCommandsAccepted ==
  [][\A r \in ProtocolReplies :
       (DevNeedMoreInfo(r) \/ RevNeedMoreInfo(r)) => Executed(r)]_vars

\* C12 as amended: ls, tree and cat are executed and their result stored;
\* grep is no command of the loops: it is rejected as an invalid command,
\* nothing is executed and the context stays as it was.
C12_ThreeCommandsAccepted ==
  [][\A r \in ProtocolReplies :
       (DevNeedMoreInfo(r) \/ RevNeedMoreInfo(r)) =>
         IF r.commands[1][1] \in {"ls", "cat", "tree"}
         THEN /\ Executed(r)
              /\ current_request' = current_request
         ELSE /\ ran' = 0
              /\ prompt_context' = prompt_context
              /\ current_request'.kind = "invalid_command"
              /\ current_request'.detail = "grep a x"]_vars

\* the three commands of the prompts have all been executed
C12_Witness ==
  /\ pc = "running"
  /\ {"LS_OUTPUT .", "CAT_OUTPUT a", "TREE_OUTPUT . 1"} \subseteq DOMAIN prompt_context
  /\ current_request.kind = "invalid_command"

\* C13: a label written into the context keeps its text in every later
\* round of the loop: no step removes a label or replaces its text by a
\* different one.
C13_LabelsWriteOnce ==
  [][\A l \in DOMAIN prompt_context :
       l \in DOMAIN prompt_context' /\ prompt_context'[l] = prompt_context[l]]_vars

\* the NeedMoreInfo replies none of whose commands is rejected
CleanReplies == {r \in NeedMoreInfoReplies : FirstOffending(r.commands) = <<>>}

\* C14: after a NeedMoreInfo round in which no command was rejected, the
\* message history the next remote call sends holds no turn of an earlier
\* call, and the context holds a label for every command of the round.
C14_FreshHistoryEachRound ==
  [][\A r \in CleanReplies :
       (/\ DevNeedMoreInfo(r) \/ RevNeedMoreInfo(r)
        /\ pc' = "running"
        /\ chat = "turns") =>
         /\ chat' = "empty"
         /\ \A i \in 1..Len(r.commands) :
              label_of(r.commands[i]) \in DOMAIN prompt_context']_vars

\* C15: Complete and Exceeded are terminal: once the developer loop has
\* applied every change of a Complete reply, the reviewer loop has accepted
\* one, or either loop has exceeded its budget, the invocation makes no
\* further remote call, executes no command and changes the context no more.
C15_Terminal ==
  [][(pc = "complete" \/ pc = "exceeded") =>
       (/\ pc' = pc
        /\ step' = step
        /\ ctx_step' = ctx_step
        /\ chat' = chat
        /\ ran' = ran
        /\ prompt_context' = prompt_context
        /\ worktree' = worktree)]_vars

\* the developer loop has applied a change and recorded the commit message
C15_Witness ==
  /\ pc = "complete"
  /\ role = "developer"
  /\ worktree = {"a"}
  /\ "COMMIT_MESSAGE" \in DOMAIN prompt_context

\* C16: the step counter that bounds a loop is reset per invocation: every
\* invocation of the developer loop and of the reviewer loop starts with
\* its full budget, whatever earlier invocations and earlier log writes of
\* the task used up.
C16_FullBudgetPerInvocation ==
  [][invocation' # invocation =>
       Budget' = IF role' = "developer" THEN DevMaxStep + 1 ELSE RevMaxStep + 1]_vars

(***************************************************************************)
(* Review: claims                                                          *)
(***************************************************************************)
\* the reply the review accepted (the content of reviewer_final.json) and
\* its comments
Accepted == log_final["reviewer_final.json"]
AcceptedComments == IF "comments" \in Accepted.keys THEN Accepted.comments ELSE <<>>
ReviewAccepted == role = "reviewer" /\ pc = "complete"

\* C17: the reviewer loop accepts a Complete reply only if 'comments' is a
\* list of objects that each hold path, start_line, end_line, comment and
\* severity, with a severity of info, warning or error and line bounds that
\* are integers; a round that does not accept leaves REVIEW_SUMMARY and
\* review_finished as they were.
C17_AcceptsOnlyValidShape ==
  /\ [](ReviewAccepted =>
          /\ Accepted.comments_is_list
          /\ \A i \in 1..Len(AcceptedComments) :
               LET c == AcceptedComments[i] IN
               /\ c.shape = "object"
               /\ CommentKeys \subseteq c.keys
               /\ c.severity \in {"info", "warning", "error"}
               /\ c.start_line.kind = "int"
               /\ c.end_line.kind = "int")
  /\ [][(pc = "running" /\ pc' = "running") =>
          (/\ "REVIEW_SUMMARY" \notin DOMAIN prompt_context'
           /\ review_finished' = review_finished)]_vars

\* C18: every comment of an accepted review has start_line <= end_line,
\* both non-negative integers.
C18_LineBoundsOrdered ==
  ReviewAccepted =>
    \A i \in 1..Len(AcceptedComments) :
      LET c == AcceptedComments[i] IN
      /\ c.start_line.kind = "int" /\ c.end_line.kind = "int"
      /\ 0 <= c.start_line.val
      /\ c.start_line.val <= c.end_line.val

entry_of(c) ==
  c.path \o ":" \o c.start_line.text \o "-" \o c.end_line.text \o " [error]: " \o c.comment

\* C20: the summary written into the context by an accepted review holds
\* one entry for each comment of severity error, in the order of the reply,
\* and none for an info or warning comment.
C20_SummaryOfErrors ==
  ReviewAccepted =>
    LET errors == SelectSeq(AcceptedComments, LAMBDA c : c.severity = "error")
    IN /\ "REVIEW_SUMMARY" \in DOMAIN prompt_context
       /\ prompt_context["REVIEW_SUMMARY"] =
            join([i \in 1..Len(errors) |-> entry_of(errors[i])], "\n")

\* an accepted review with two different error comments
C20_Witness ==
  /\ ReviewAccepted
  /\ Len(AcceptedComments) = 2
  /\ AcceptedComments[1].severity = "error"
  /\ AcceptedComments[1].start_line.val = 3
  /\ AcceptedComments[2].severity = "error"
  /\ AcceptedComments[2].start_line.val = 1

(***************************************************************************)
(* Convergence and patches: claims                                         *)
(***************************************************************************)
IsFinalCommit(m) == \E id \in TaskIds : m = final_message(id)
TaskCommitted == \E i \in 1..Len(commits) : IsFinalCommit(commits[i])

\* C21: the task is finished only by way of the reviewer: with a reply
\* whose comments are [] the work stops after one reviewer round (and an
\* error comment sends it through one more developer round first), so a
\* run that has made the task's final commit has an accepted review with
\* no error comment behind it.
C21_ConvergedBeforeCommit ==
  TaskCommitted =>
    (review_finished /\ "reviewer_final.json" \in DOMAIN log_final)

\* a Complete reply of the developer one of whose changes git apply rejects
ApplyFails(r) ==
  /\ "changes" \in r.keys
  /\ first_failed(r.changes, 1) # 0
  /\ is_text(r.changes[first_failed(r.changes, 1)])
FailedPath(r) == r.changes[first_failed(r.changes, 1)].path

\* C22 as stated: a change that fails to apply does not abort the task;
\* the failure text is the first instruction of a fresh developer-loop
\* invocation (its step counter starts again) that keeps the context.
C22_FreshInvocation ==
  [][\A r \in DevCompleteReplies :
       (ApplyFails(r) /\ DevComplete(r)) =>
          /\ pc' = "running"
          /\ current_request' = [kind |-> "apply_failed", detail |-> FailedPath(r)]
          /\ prompt_context' = prompt_context
          /\ step' = 0 - 1]_vars

\* C22 as amended: a change that fails to apply does not abort the task;
\* the failure text, naming the change's path, is the instruction of the
\* next round of the same developer-loop invocation, whose step counter
\* goes on counting, with the same context.
C22_RepairInSameInvocation ==
  [][\A r \in DevCompleteReplies :
       (ApplyFails(r) /\ DevComplete(r)) =>
          /\ pc' = "running"
          /\ current_request' = [kind |-> "apply_failed", detail |-> FailedPath(r)]
          /\ prompt_context' = prompt_context
          /\ invocation' = invocation
          /\ step' = step + 2]_vars

C22_Witness ==
  /\ role = "developer"
  /\ pc = "running"
  /\ current_request = [kind |-> "apply_failed", detail |-> "b.txt"]
  /\ step > 2

\* C23: the changes of one developer round are written all or none: a
\* round after which the loop goes on (a change failed to apply) has
\* written nothing to the working tree.
C23_AllOrNone ==
  [][(role = "developer" /\ pc = "running" /\ pc' = "running") =>
        (worktree' = worktree /\ a_lines' = a_lines)]_vars

\* What the hunk model says: the half-open 0-indexed range
\* [old_start, old_start + old_len) is replaced by new_lines.
splice(lines, h) ==
  SubSeq(lines, 1, h.old_start) \o h.new_lines
    \o SubSeq(lines, h.old_start + h.old_len + 1, Len(lines))
in_range(lines, h) == h.old_start + h.old_len <= Len(lines)
overlap(h1, h2) ==
  /\ h1.old_start < h2.old_start + h2.old_len
  /\ h2.old_start < h1.old_start + h1.old_len
ValidHunks(lines, hs) ==
  /\ \A i \in 1..Len(hs) : in_range(lines, hs[i])
  /\ \A i, j \in 1..Len(hs) : i # j => ~overlap(hs[i], hs[j])
Highest(hs) ==
  CHOOSE i \in 1..Len(hs) : \A j \in 1..Len(hs) : hs[j].old_start <= hs[i].old_start
Without(hs, i) == SubSeq(hs, 1, i - 1) \o SubSeq(hs, i + 1, Len(hs))
RECURSIVE apply_desc(_, _)
apply_desc(lines, hs) ==
  IF hs = <<>> THEN lines
  ELSE apply_desc(splice(lines, hs[Highest(hs)]), Without(hs, Highest(hs)))

\* C24: a change whose hunks are in range and do not overlap leaves the
\* file with every range [old_start, old_start + old_len) replaced by the
\* hunk's new_lines, as applying the hunks from the highest old_start to the
\* lowest gives it ({1, 2, [X]} turns [L1, L2, L3, L4] into [L1, X, L4]).
C24_HunkReplacesRange ==
  [][\A r \in HunkReplies :
       (ValidHunks(a_lines, r.changes[1].hunks) /\ DevComplete(r)) =>
          a_lines' = apply_desc(a_lines, r.changes[1].hunks)]_vars

\* C25: a change with two hunks whose old ranges overlap, or with a hunk
\* that ends beyond the last line, is rejected: the file is left as it
\* was and the failure goes back to the developer as its next instruction.
C25_InvalidHunksRejected ==
  [][\A r \in HunkReplies :
       (~ValidHunks(a_lines, r.changes[1].hunks) /\ DevComplete(r)) =>
          /\ a_lines' = a_lines
          /\ pc' = "running"
          /\ current_request'.kind = "apply_failed"]_vars

(***************************************************************************)
(* The run command: claims                                                 *)
(***************************************************************************)
\* nothing of the repository is altered: no branch, no checkout, no
\* commit, no proposed file, no entry of done.yaml or problems.yaml
NoMutation ==
  /\ UNCHANGED <<gitVars, yamlVars>>
  /\ applied' = {}

RunEnds == schedPc # "load" /\ schedPc' = "load"

\* C27: a run in which at least one check failed ends with a blocking
\* problem appended for the task, the id not appended to done.yaml and
\* the final '<id>: <title>' commit not made.
C27_ChecksFailedRecorded ==
  [][(RunEnds /\ failed_checks(results) # <<>>) =>
        /\ Len(problems_yaml') = Len(problems_yaml) + 1
        /\ problems_yaml'[Len(problems_yaml')].task = tasks[picked].id
        /\ problems_yaml'[Len(problems_yaml')].blocking
        /\ done_yaml' = done_yaml
        /\ \A i \in 1..Len(commits') : i > Len(commits) => ~IsFinalCommit(commits'[i])]_vars

\* C28: done.yaml is append-only: every step leaves the listdir it held
\* in place and in order.
C28_DoneAppendOnly ==
  [][/\ Len(done_yaml) <= Len(done_yaml')
     /\ SubSeq(done_yaml', 1, Len(done_yaml)) = done_yaml]_vars

C28_Witness ==
  /\ rc = "0"
  /\ Len(done_yaml) = 3
  /\ done_yaml[1] = "B"
  /\ done_yaml[3] = "A"

\* C30: the run of a task ends with the file holding the developer's
\* change ('hi') and with a new commit whose message is the developer's
\* commit_message 'm'.
C30_EndToEnd ==
  (rc = "0" /\ TaskCommitted) =>
    /\ a_lines = <<"hi">>
    /\ \E i \in 1..Len(commits) : commits[i] = "m"

(***************************************************************************)
(* ls: claims                                                              *)
(***************************************************************************)
\* the noise directories: .git, .venv, logs, __pycache__ and the
\* directories named *.egg-info
NoiseDir(e) ==
  /\ e.kind = "dir"
  /\ \/ e.name \in {".git", ".venv", "logs", "__pycache__"}
     \/ (Len(e.name) > 9 /\ SubSeq(e.name, Len(e.name) - 8, Len(e.name)) = ".egg-info")
Line(e) ==
  IF e.kind = "dir" THEN e.name \o "/"
  ELSE IF e.kind = "file" THEN e.name
  ELSE e.name \o " (unknown)"
ExpectedListing(es) ==
  LET kept == SelectSeq(es, LAMBDA e : ~NoiseDir(e)) IN
  join([i \in 1..Len(kept) |-> Line(kept[i])], "\n")
ListsDirInside ==
  /\ call.op = "ls"
  /\ isdir(fsKind, call.path)
  /\ ~outside_cwd(call.path)

\* C29: ls of a directory inside the sandbox returns exactly its immediate
\* children that are no noise directories, one per line, a directory with
\* a trailing '/': no noise directory is listed, no other child is omitted.
C29_ListingElidesNoiseOnly ==
  ListsDirInside => result = ExpectedListing(listdir)

(***************************************************************************)
(* The run command: claims on successive runs                              *)
(***************************************************************************)
\* every task of the backlog has status ready
AllReady == \A i \in 1..Len(tasks) : tasks[i].status = "ready"

\* every id of done.yaml was put there by a run of the command, which
\* made the task's final commit
DoneByRuns ==
  \A i \in 1..Len(done_yaml) :
    \E j \in 1..Len(commits) : commits[j] = final_message(done_yaml[i])

\* C31: in runs of a backlog of ready tasks that start from an empty
\* done.yaml, a task whose id is in done.yaml is never selected again.
C31_DoneNeverSelectedAgain ==
  (AllReady /\ DoneByRuns /\ picked # 0) =>
    tasks[picked].id \notin load_done_ids(done_yaml)

\* the step adds the '<id>: add tests' commit
TestsCommitted ==
  /\ Len(commits') = Len(commits) + 1
  /\ \E id \in TaskIds : commits'[Len(commits')] = tests_message(id)

\* C32: the commit of step commit_tests is made only if every check that
\* ran before it reported ok.
C32_NoCommitAfterFailedCheck ==
  [][TestsCommitted => \A i \in 1..Len(results) : results[i].ok]_vars

\* C38: the id is appended to done.yaml only at the end of a run that
\* created the task's branch, ran every step and every check with result
\* ok and measured a diff of at most 300 lines; the final commit follows
\* the append and holds it; a run that ends with exit status 6 or 7
\* appends a blocking problem, leaves done.yaml alone and makes no final
\* commit.
C38_DoneOnlyAfterSuccess ==
  [][/\ (done_yaml' # done_yaml) =>
          /\ schedPc = "collect"
          /\ branch = branch_name(tasks[picked].id)
          /\ branch \in branches
          /\ proposal # NoProposal
          /\ applied = {proposal.files[i] : i \in 1..Len(proposal.files)}
          /\ Len(results) = Len(checks)
          /\ \A i \in 1..Len(results) : results[i].ok
          /\ commits # <<>>
          /\ commits[Len(commits)] = tests_message(tasks[picked].id)
          /\ \A lines \in numstat(clean) : lines <= MaxDiffLines
          /\ done_yaml' = Append(done_yaml, tasks[picked].id)
          /\ commits' = Append(commits, final_message(tasks[picked].id))
          /\ clean'
          /\ rc' = "0"
     /\ (RunEnds /\ rc' \in {"6", "7"}) =>
          /\ Len(problems_yaml') = Len(problems_yaml) + 1
          /\ problems_yaml'[Len(problems_yaml')].task = tasks[picked].id
          /\ problems_yaml'[Len(problems_yaml')].blocking
          /\ done_yaml' = done_yaml
          /\ commits' = commits]_vars

\* a run of a task with two checks, both ok, has ended with the
\* task's id the last entry of done.yaml and its final commit the last one
C38_Witness ==
  /\ rc = "0"
  /\ Len(results) = 2
  /\ done_yaml # <<>>
  /\ commits # <<>>
  /\ commits[Len(commits)] = final_message(done_yaml[Len(done_yaml)])

\* the file of the repository named by path lies in directory dir or below
InsideDir(path, dir) ==
  \/ resolved(path) = resolved(dir)
  \/ str_startswith(resolved(path), resolved(dir) \o "/")

\* C39: every file step tester_apply writes lies inside tests/ or
\* docs/tests/; a path in a sibling directory whose name only starts with
\* an allowed name (tests_old/x.py) is rejected and not written.
C39_WritesInsideAllowedDirs ==
  \A path \in applied :
    \E j \in 1..Len(TestPrefixes) : InsideDir(path, TestPrefixes[j])

(***************************************************************************)
(* The loops: claims on instructions, step accounting and exits            *)
(***************************************************************************)
\* the instructions that report an error of an earlier round
CorrectiveKinds ==
  {"parse_error", "apply_failed", "invalid_tree", "invalid_depth", "invalid_command",
   "invalid_status", "invalid_comments"}

\* C33: after a NeedMoreInfo round in which every command was executed,
\* the instruction of the next remote call is no error message of an
\* earlier round.
C33_NoStaleCorrection ==
  (pc = "running" /\ ran > 0 /\ offending = <<>>) =>
    current_request.kind \notin CorrectiveKinds

\* C34: one invocation of the developer loop makes at most 101 remote
\* calls, exactly 101 when it ends with no reply parsed, and at most 51
\* when every reply was parsed: a parsed reply advances the counter by
\* two, an unparsable one by one.
C34_StepAccounting ==
  /\ calls.made <= 101
  /\ (pc = "exceeded" /\ calls.parsed = 0) => calls.made = 101
  /\ (calls.parsed = calls.made) => calls.made <= 51
  /\ (pc = "running") => step = calls.made + calls.parsed - 1

\* the invocation has ended on its budget with none of its replies parsed
C34_Witness ==
  /\ pc = "exceeded"
  /\ calls.parsed = 0
  /\ calls.made = 101

\* the value a context holds under a label, <<>> when it holds none
Label(d, key) == IF key \in DOMAIN d THEN <<d[key]>> ELSE <<>>

\* json.dumps of the lists of changes that git apply accepts one and all
AppliedDiffs ==
  {dumps(ch) : ch \in SeqsUpTo({c \in Changes : c.applies}, MaxChanges)}

\* C35: COMMIT_MESSAGE and DIFF_CONTENT are written into the developer's
\* context only by a round that ends the loop with a Complete reply all of
\* whose changes were applied; every other round leaves both labels as
\* they were.
C35_LabelsOnlyAfterApplied ==
  [][(\/ Label(prompt_context', "COMMIT_MESSAGE") # Label(prompt_context, "COMMIT_MESSAGE")
      \/ Label(prompt_context', "DIFF_CONTENT") # Label(prompt_context, "DIFF_CONTENT")) =>
        /\ role = "developer"
        /\ pc = "running" /\ pc' = "complete"
        /\ "COMMIT_MESSAGE" \in DOMAIN prompt_context'
        /\ "DIFF_CONTENT" \in DOMAIN prompt_context'
        /\ prompt_context'["DIFF_CONTENT"] \in AppliedDiffs]_vars

\* a Complete reply whose change applied has ended the loop, after a
\* round one of whose changes had failed to apply
C35_Witness ==
  /\ role = "developer" /\ pc = "complete"
  /\ current_request.kind = "apply_failed"
  /\ Label(prompt_context, "COMMIT_MESSAGE") = <<"m">>
  /\ Label(prompt_context, "DIFF_CONTENT") = <<"a">>

\* C36: a step of the reviewer loop that does not end it with an accepted
\* review, the exit on the step budget among them, leaves review_finished
\* and the REVIEW_SUMMARY label as they are; so an invocation that ends on
\* its budget leaves both as they were on entry.
C36_BudgetExitKeepsVerdict ==
  [][(role = "reviewer" /\ pc = "running" /\ pc' # "complete") =>
        /\ review_finished' = review_finished
        /\ Label(prompt_context', "REVIEW_SUMMARY") = Label(prompt_context, "REVIEW_SUMMARY")]_vars

\* a second invocation of the reviewer has ended on the budget, with the
\* verdict and the summary the first one left
C36_Witness ==
  /\ role = "reviewer" /\ pc = "exceeded"
  /\ invocation = 2
  /\ review_finished
  /\ Label(prompt_context, "REVIEW_SUMMARY") = <<"">>

\* C37: a reply {"status": "complete"} with no 'comments' key is not
\* accepted: the review that reviewer_final.json holds, and with it
\* every review that set review_finished, has the key.
C37_CommentsRequired ==
  ("reviewer_final.json" \in DOMAIN log_final) =>
    "comments" \in log_final["reviewer_final.json"].keys

====
